---- MODULE Spec2Model ----
(***************************************************************************)
(* A model of app.py, the PubMed search-and-summarise Streamlit script.    *)
(*                                                                         *)
(* Text is a sequence of one-character strings, so that quoting, joining,  *)
(* trimming and number parsing are computed the way the code computes      *)
(* them.  Python's None is the empty option <<>>, a present value v is the *)
(* option <<v>>.                                                           *)
(*                                                                         *)
(* Two specifications share the variables:                                 *)
(*   SpecCalls  one call of one function of app.py, on inputs and on       *)
(*              PubMed / chat-completion responses drawn from bounded sets *)
(*   Spec       one browser session: the script runs of app.py (widget     *)
(*              handlers followed by the page render) over session_state   *)
(***************************************************************************)
EXTENDS Integers, Sequences, FiniteSets, TLC

VARIABLES
    \* st.session_state (app.py 519-536)
    articles, last_query, result_count, article_summaries, search_history,
    key_findings, research_gaps, clinical_recommendations, user_question,
    \* the value held by the text_input widget "question_input" (app.py 716)
    question_input,
    \* position of the current script run: "idle" between runs, "render"
    \* when the sidebar and search handlers are done and the main content
    \* area (app.py 612-929) is next
    pc,
    \* what the current script run has done so far (observation only)
    run,
    \* chat-completion requests made by summarize_abstract since the last
    \* completed search, per pmid (observation only)
    summary_requests,
    \* chat-completion requests made for each of the three analyses of the
    \* Analysis tab since the last completed search (observation only)
    analysis_requests,
    \* the chat-completion request the Q&A tab has sent in the current script
    \* run, and whether that run began with a search (observation only)
    qa_asked,
    \* SpecCalls: the function called, its inputs, responses and result
    call

vars == <<articles, last_query, result_count, article_summaries, search_history,
          key_findings, research_gaps, clinical_recommendations, user_question,
          question_input, pc, run, summary_requests, analysis_requests,
          qa_asked, call>>

session_vars == <<articles, last_query, result_count, article_summaries,
                  search_history, key_findings, research_gaps,
                  clinical_recommendations, user_question, question_input,
                  pc, run, summary_requests, analysis_requests, qa_asked>>

----------------------------------------------------------------------------
(* Bounds of the model *)

\* longest keyword text drawn for build_pubmed_query
MaxStrLen == 1
\* longest keyword list drawn for build_pubmed_query
MaxKeywords == 2
\* longest identifier list / record list drawn for a PubMed response
MaxIds == 2
\* largest result count drawn for a PubMed count response
MaxCount == 42
\* longest chat-completion text drawn
MaxReply == 3

\* min_value of the year inputs (app.py 557, 559)
MinYear == 1900
\* datetime.now().year (app.py 324, 557, 559)
CurrentYear == 2026

\* most summary requests counted per pmid
MaxCounted == 2

\* most authors of a record handed to generate_citation
MaxAuthors == 3

\* entries of search_history shown as buttons (app.py 570)
HistoryShown == 5

\* max_results: the default of the slider and of the parameter (app.py 224, 564)
DefaultMaxResults == 5

----------------------------------------------------------------------------
(* Text *)

None == <<>>
Some(v) == <<v>>

\* sequences over S of length at most n
SeqsUpTo(S, n) == UNION {[1..k -> S] : k \in 0..n}

\* str.isspace for one character
IsSpace(c) == c \in {" ", "\t", "\n"}

RECURSIVE LStrip(_)
LStrip(s) == IF s # <<>> /\ IsSpace(Head(s)) THEN LStrip(Tail(s)) ELSE s

RECURSIVE RStrip(_)
RStrip(s) ==
    IF s # <<>> /\ IsSpace(s[Len(s)]) THEN RStrip(SubSeq(s, 1, Len(s) - 1)) ELSE s

\* str.strip()
Strip(s) == RStrip(LStrip(s))

\* sep.join(parts)
RECURSIVE JoinStr(_, _)
JoinStr(sep, parts) ==
    IF parts = <<>> THEN <<>>
    ELSE IF Len(parts) = 1 THEN parts[1]
    ELSE parts[1] \o sep \o JoinStr(sep, Tail(parts))

Digits == <<"0", "1", "2", "3", "4", "5", "6", "7", "8", "9">>

\* str(n) of a non-negative int, as an f-string formats it
RECURSIVE IntToStr(_)
IntToStr(n) ==
    IF n < 10 THEN <<Digits[n + 1]>>
    ELSE IntToStr(n \div 10) \o <<Digits[(n % 10) + 1]>>

IsDigit(c) == \E d \in 1..10 : Digits[d] = c

DigitVal(c) == (CHOOSE d \in 1..10 : Digits[d] = c) - 1

RECURSIVE DigitsVal(_)
DigitsVal(s) ==
    IF s = <<>> THEN 0 ELSE 10 * DigitsVal(SubSeq(s, 1, Len(s) - 1)) + DigitVal(s[Len(s)])

\* int(s) of a str: surrounding whitespace is ignored, one optional sign, then
\* decimal digits; anything else raises ValueError.  [ok, val]
IntOfStr(s) ==
    LET t == Strip(s)
        signed == t # <<>> /\ Head(t) \in {"-", "+"}
        d == IF signed THEN Tail(t) ELSE t
    IN  IF d # <<>> /\ \A i \in 1..Len(d) : IsDigit(d[i])
        THEN [ok |-> TRUE,
              val |-> IF signed /\ Head(t) = "-" THEN 0 - DigitsVal(d) ELSE DigitsVal(d)]
        ELSE [ok |-> FALSE, val |-> 0]

----------------------------------------------------------------------------
(* build_pubmed_query (app.py 182-204) *)

\* f'"{s}"'
Quote_Bare(s) == s

Quote(s) == <<"\"">> \o s \o <<"\"">>

\* truthiness of `x and x.strip()` for an optional str
NonBlank(opt) == opt # None /\ Strip(opt[1]) # <<>>

\* " ".join(f'"{kw}"' for kw in keywords if kw.strip())
keywords_str(keywords) ==
    LET kept == SelectSeq(keywords, LAMBDA kw : Strip(kw) # <<>>)
    IN  JoinStr(<<" ">>, [i \in 1..Len(kept) |-> Quote(kept[i])])

KeywordClause(keywords) == <<"(">> \o keywords_str(keywords) \o <<")">>

DiseaseClause(disease) ==
    <<"(">> \o Quote(disease)
    \o <<"[","M","e","S","H"," ","T","e","r","m","s","]"," ","O","R"," ">>
    \o Quote(disease) \o <<"[","A","l","l"," ","F","i","e","l","d","s","]",")">>

YearClause(year_range) ==
    <<"(">> \o IntToStr(year_range[1]) \o <<"[","P","D","A","T","]",":">>
    \o IntToStr(year_range[2]) \o <<"[","P","D","A","T","]",")">>

AuthorClause(author) == Quote(author) \o <<"[","A","u","t","h","o","r","]">>

JournalClause(journal) == Quote(journal) \o <<"[","J","o","u","r","n","a","l","]">>

\* the list query_parts as line 203 finds it, journal put before author
query_parts_JournalFirst(keywords, disease, year_range, author, journal) ==
    (IF keywords_str(keywords) # <<>> THEN <<KeywordClause(keywords)>> ELSE <<>>)
    \o (IF NonBlank(disease) THEN <<DiseaseClause(disease[1])>> ELSE <<>>)
    \o (IF year_range # None /\ Len(year_range[1]) = 2
        THEN <<YearClause(year_range[1])>> ELSE <<>>)
    \o (IF NonBlank(journal) THEN <<JournalClause(journal[1])>> ELSE <<>>)
    \o (IF NonBlank(author) THEN <<AuthorClause(author[1])>> ELSE <<>>)

\* the list query_parts as line 203 finds it
query_parts(keywords, disease, year_range, author, journal) ==
    (IF keywords_str(keywords) # <<>> THEN <<KeywordClause(keywords)>> ELSE <<>>)
    \o (IF NonBlank(disease) THEN <<DiseaseClause(disease[1])>> ELSE <<>>)
    \o (IF year_range # None /\ Len(year_range[1]) = 2
        THEN <<YearClause(year_range[1])>> ELSE <<>>)
    \o (IF NonBlank(author) THEN <<AuthorClause(author[1])>> ELSE <<>>)
    \o (IF NonBlank(journal) THEN <<JournalClause(journal[1])>> ELSE <<>>)

build_pubmed_query(keywords, disease, year_range, author, journal, logic_operator) ==
    JoinStr(<<" ">> \o logic_operator \o <<" ">>,
            query_parts(keywords, disease, year_range, author, journal))

AND == <<"A", "N", "D">>
OR == <<"O", "R">>

----------------------------------------------------------------------------
(* PubMed responses                                                        *)
(*                                                                         *)
(* A response to requests.get is                                           *)
(*   [kind |-> "network_error"]       requests.get raised                  *)
(*   [kind |-> "bad_json"]            .json() raised                       *)
(*   [kind |-> "json", body |-> b]    b.esearchresult an optional record   *)
(*                                    of optional count and idlist         *)
(*   [kind |-> "parser_error"]        BeautifulSoup(...) raised            *)
(*   [kind |-> "xml", articles |-> a] a the <PubmedArticle> elements found *)

\* one request of requests.get
EsearchRequest(query, retmax) ==
    [endpoint |-> "esearch", term |-> query, retmax |-> retmax, id |-> None]

EfetchRequest(ids) ==
    [endpoint |-> "efetch", term |-> None, retmax |-> None, id |-> Some(ids)]

\* search_response["esearchresult"][field]: [ok, val], not ok when .json() or a
\* lookup raised
EsearchField(resp, field) ==
    IF resp.kind = "json" /\ resp.body.esearchresult # None
       /\ resp.body.esearchresult[1][field] # None
    THEN [ok |-> TRUE, val |-> resp.body.esearchresult[1][field][1]]
    ELSE [ok |-> FALSE, val |-> <<>>]

(* fetch_pubmed_count (app.py 206-222) *)

\* lines 217-219, the body of the try
fetch_pubmed_count_try(query, resp) ==
    LET count == EsearchField(resp, "count")
        n == IF count.ok THEN IntOfStr(count.val) ELSE [ok |-> FALSE, val |-> 0]
    IN  [raised |-> ~n.ok,
         ret |-> n.val,
         requests |-> <<EsearchRequest(query, None)>>,
         errors |-> 0]

\* fetch_pubmed_count without its except clause
fetch_pubmed_count_Uncaught(query, resp) == fetch_pubmed_count_try(query, resp)

fetch_pubmed_count(query, resp) ==
    LET t == fetch_pubmed_count_try(query, resp)
    IN  IF t.raised
        THEN [raised |-> FALSE, ret |-> 0, requests |-> t.requests, errors |-> 1]
        ELSE t

(* generate_mock_data (app.py 322-377) *)

mock_article_1 ==
    [title |->
        <<"R","e","c","e","n","t"," ","A","d","v","a","n","c","e","s"," ","i","n"," ","T","r",
          "e","a","t","m","e","n","t"," ","A","p","p","r","o","a","c","h","e","s"," ","f","o",
          "r"," ","A","u","t","o","i","m","m","u","n","e"," ","D","i","s","o","r","d","e","r",
          "s">>,
     abstract |->
        <<"T","h","i","s"," ","c","o","m","p","r","e","h","e","n","s","i","v","e"," ","r","e",
          "v","i","e","w"," ","e","x","a","m","i","n","e","s"," ","t","h","e"," ","l","a","t",
          "e","s","t"," ","t","h","e","r","a","p","e","u","t","i","c"," ","a","p","p","r","o",
          "a","c","h","e","s"," ","f","o","r"," ","a","u","t","o","i","m","m","u","n","e"," ",
          "d","i","s","o","r","d","e","r","s",","," ","f","o","c","u","s","i","n","g"," ","o",
          "n"," ","t","a","r","g","e","t","e","d"," ","i","m","m","u","n","o","m","o","d","u",
          "l","a","t","o","r","s"," ","a","n","d"," ","p","e","r","s","o","n","a","l","i","z",
          "e","d"," ","m","e","d","i","c","i","n","e"," ","s","t","r","a","t","e","g","i","e",
          "s","."," ","W","e"," ","a","n","a","l","y","z","e"," ","c","l","i","n","i","c","a",
          "l"," ","t","r","i","a","l","s"," ","d","a","t","a"," ","f","r","o","m"," ","t","h",
          "e"," ","p","a","s","t"," ","f","i","v","e"," ","y","e","a","r","s"," ","a","n","d",
          " ","d","i","s","c","u","s","s"," ","e","m","e","r","g","i","n","g"," ","t","r","e",
          "a","t","m","e","n","t"," ","p","a","r","a","d","i","g","m","s",".">>,
     authors |-> <<
        <<"S","a","r","a","h"," ","J","."," ","W","i","l","s","o","n">>,
        <<"M","i","c","h","a","e","l"," ","C","h","a","n","g">>,
        <<"P","r","i","y","a"," ","P","a","t","e","l">>>>,
     publication_date |->
        <<"J","a","n","u","a","r","y"," ">> \o IntToStr(CurrentYear),
     journal |->
        <<"J","o","u","r","n","a","l"," ","o","f"," ","C","l","i","n","i","c","a","l"," ","I",
          "m","m","u","n","o","l","o","g","y">>,
     keywords |-> <<
        <<"a","u","t","o","i","m","m","u","n","e"," ","d","i","s","o","r","d","e","r","s">>,
        <<"i","m","m","u","n","o","m","o","d","u","l","a","t","o","r","s">>,
        <<"p","e","r","s","o","n","a","l","i","z","e","d"," ","m","e","d","i","c","i","n","e">>>>,
     article_url |->
        <<"h","t","t","p","s",":","/","/","p","u","b","m","e","d",".","n","c","b","i",".","n",
          "l","m",".","n","i","h",".","g","o","v","/","s","a","m","p","l","e","1","/">>,
     pmid |-> <<"s","a","m","p","l","e","1">>]

mock_article_2 ==
    [title |->
        <<"M","a","c","h","i","n","e"," ","L","e","a","r","n","i","n","g"," ","A","p","p","l",
          "i","c","a","t","i","o","n","s"," ","i","n"," ","E","a","r","l","y"," ","D","i","s",
          "e","a","s","e"," ","D","e","t","e","c","t","i","o","n">>,
     abstract |->
        <<"T","h","i","s"," ","s","t","u","d","y"," ","e","v","a","l","u","a","t","e","s"," ",
          "t","h","e"," ","e","f","f","i","c","a","c","y"," ","o","f"," ","v","a","r","i","o",
          "u","s"," ","m","a","c","h","i","n","e"," ","l","e","a","r","n","i","n","g"," ","a",
          "l","g","o","r","i","t","h","m","s"," ","i","n"," ","p","r","e","d","i","c","t","i",
          "n","g"," ","d","i","s","e","a","s","e"," ","o","n","s","e","t"," ","f","r","o","m",
          " ","b","i","o","m","a","r","k","e","r"," ","d","a","t","a","."," ","U","s","i","n",
          "g"," ","a"," ","d","a","t","a","s","e","t"," ","o","f"," ","1","0",",","0","0","0",
          " ","p","a","t","i","e","n","t","s"," ","a","c","r","o","s","s"," ","m","u","l","t",
          "i","p","l","e"," ","c","e","n","t","e","r","s",","," ","w","e"," ","d","e","m","o",
          "n","s","t","r","a","t","e"," ","s","i","g","n","i","f","i","c","a","n","t"," ","i",
          "m","p","r","o","v","e","m","e","n","t","s"," ","i","n"," ","e","a","r","l","y"," ",
          "d","e","t","e","c","t","i","o","n"," ","r","a","t","e","s"," ","f","o","r"," ","s",
          "e","v","e","r","a","l"," ","c","h","r","o","n","i","c"," ","c","o","n","d","i","t",
          "i","o","n","s",".">>,
     authors |-> <<
        <<"D","a","v","i","d"," ","A","."," ","R","o","b","e","r","t","s">>,
        <<"E","m","m","a"," ","L","."," ","T","h","o","m","p","s","o","n">>>>,
     publication_date |->
        <<"M","a","r","c","h"," ">> \o IntToStr(CurrentYear),
     journal |->
        <<"D","i","g","i","t","a","l"," ","H","e","a","l","t","h"," ","R","e","s","e","a","r",
          "c","h">>,
     keywords |-> <<
        <<"m","a","c","h","i","n","e"," ","l","e","a","r","n","i","n","g">>,
        <<"d","i","s","e","a","s","e"," ","p","r","e","d","i","c","t","i","o","n">>,
        <<"b","i","o","m","a","r","k","e","r","s">>>>,
     article_url |->
        <<"h","t","t","p","s",":","/","/","p","u","b","m","e","d",".","n","c","b","i",".","n",
          "l","m",".","n","i","h",".","g","o","v","/","s","a","m","p","l","e","2","/">>,
     pmid |-> <<"s","a","m","p","l","e","2">>]

mock_article_3 ==
    [title |->
        <<"C","o","m","p","a","r","a","t","i","v","e"," ","E","f","f","e","c","t","i","v","e",
          "n","e","s","s"," ","o","f"," ","N","o","v","e","l"," ","A","n","t","i","c","o","a",
          "g","u","l","a","n","t","s"," ","i","n"," ","P","r","e","v","e","n","t","i","n","g",
          " ","S","t","r","o","k","e">>,
     abstract |->
        <<"T","h","i","s"," ","m","e","t","a","-","a","n","a","l","y","s","i","s"," ","c","o",
          "m","p","a","r","e","s"," ","o","u","t","c","o","m","e","s"," ","o","f"," ","d","i",
          "r","e","c","t"," ","o","r","a","l"," ","a","n","t","i","c","o","a","g","u","l","a",
          "n","t","s"," ","v","e","r","s","u","s"," ","t","r","a","d","i","t","i","o","n","a",
          "l"," ","t","h","e","r","a","p","y"," ","i","n"," ","s","t","r","o","k","e"," ","p",
          "r","e","v","e","n","t","i","o","n","."," ","R","e","s","u","l","t","s"," ","i","n",
          "d","i","c","a","t","e"," ","s","u","p","e","r","i","o","r"," ","e","f","f","i","c",
          "a","c","y"," ","p","r","o","f","i","l","e","s"," ","f","o","r"," ","n","e","w","e",
          "r"," ","a","g","e","n","t","s"," ","w","i","t","h"," ","r","e","d","u","c","e","d",
          " ","b","l","e","e","d","i","n","g"," ","r","i","s","k","s"," ","i","n"," ","s","p",
          "e","c","i","f","i","c"," ","p","a","t","i","e","n","t"," ","p","o","p","u","l","a",
          "t","i","o","n","s",".">>,
     authors |-> <<
        <<"J","e","n","n","i","f","e","r"," ","M","."," ","L","o","p","e","z">>,
        <<"R","o","b","e","r","t"," ","K","."," ","C","h","e","n">>,
        <<"T","h","o","m","a","s"," ","W","i","l","s","o","n">>>>,
     publication_date |->
        <<"J","u","n","e"," ">> \o IntToStr(CurrentYear - 1),
     journal |->
        <<"S","t","r","o","k","e"," ","P","r","e","v","e","n","t","i","o","n"," ","R","e","s",
          "e","a","r","c","h">>,
     keywords |-> <<
        <<"a","n","t","i","c","o","a","g","u","l","a","n","t","s">>,
        <<"s","t","r","o","k","e"," ","p","r","e","v","e","n","t","i","o","n">>,
        <<"m","e","t","a","-","a","n","a","l","y","s","i","s">>>>,
     article_url |->
        <<"h","t","t","p","s",":","/","/","p","u","b","m","e","d",".","n","c","b","i",".","n",
          "l","m",".","n","i","h",".","g","o","v","/","s","a","m","p","l","e","3","/">>,
     pmid |-> <<"s","a","m","p","l","e","3">>]

mock_article_4 ==
    [title |->
        <<"G","e","n","e","t","i","c"," ","M","a","r","k","e","r","s"," ","f","o","r"," ","T",
          "r","e","a","t","m","e","n","t"," ","R","e","s","p","o","n","s","e"," ","i","n"," ",
          "M","a","j","o","r"," ","D","e","p","r","e","s","s","i","v","e"," ","D","i","s","o",
          "r","d","e","r">>,
     abstract |->
        <<"T","h","i","s"," ","r","e","s","e","a","r","c","h"," ","i","d","e","n","t","i","f",
          "i","e","s"," ","s","p","e","c","i","f","i","c"," ","g","e","n","e","t","i","c"," ",
          "p","o","l","y","m","o","r","p","h","i","s","m","s"," ","a","s","s","o","c","i","a",
          "t","e","d"," ","w","i","t","h"," ","d","i","f","f","e","r","e","n","t","i","a","l",
          " ","r","e","s","p","o","n","s","e","s"," ","t","o"," ","a","n","t","i","d","e","p",
          "r","e","s","s","a","n","t"," ","m","e","d","i","c","a","t","i","o","n","s","."," ",
          "T","h","e"," ","f","i","n","d","i","n","g","s"," ","s","u","g","g","e","s","t"," ",
          "p","o","t","e","n","t","i","a","l"," ","f","o","r"," ","g","e","n","o","t","y","p",
          "e","-","g","u","i","d","e","d"," ","t","r","e","a","t","m","e","n","t"," ","s","e",
          "l","e","c","t","i","o","n"," ","t","o"," ","i","m","p","r","o","v","e"," ","o","u",
          "t","c","o","m","e","s"," ","i","n"," ","d","e","p","r","e","s","s","i","o","n"," ",
          "m","a","n","a","g","e","m","e","n","t",".">>,
     authors |-> <<
        <<"N","a","t","a","s","h","a"," ","S","i","n","g","h">>,
        <<"C","a","r","l","o","s"," ","R","o","d","r","i","g","u","e","z">>>>,
     publication_date |->
        <<"O","c","t","o","b","e","r"," ">> \o IntToStr(CurrentYear - 1),
     journal |->
        <<"J","o","u","r","n","a","l"," ","o","f"," ","P","s","y","c","h","i","a","t","r","i",
          "c"," ","G","e","n","e","t","i","c","s">>,
     keywords |-> <<
        <<"d","e","p","r","e","s","s","i","o","n">>,
        <<"p","h","a","r","m","a","c","o","g","e","n","o","m","i","c","s">>,
        <<"p","e","r","s","o","n","a","l","i","z","e","d"," ","p","s","y","c","h","i","a","t",
          "r","y">>>>,
     article_url |->
        <<"h","t","t","p","s",":","/","/","p","u","b","m","e","d",".","n","c","b","i",".","n",
          "l","m",".","n","i","h",".","g","o","v","/","s","a","m","p","l","e","4","/">>,
     pmid |-> <<"s","a","m","p","l","e","4">>]

mock_article_5 ==
    [title |->
        <<"M","i","c","r","o","b","i","o","m","e"," ","A","l","t","e","r","a","t","i","o","n",
          "s"," ","A","s","s","o","c","i","a","t","e","d"," ","w","i","t","h"," ","I","n","f",
          "l","a","m","m","a","t","o","r","y"," ","B","o","w","e","l"," ","D","i","s","e","a",
          "s","e"," ","P","r","o","g","r","e","s","s","i","o","n">>,
     abstract |->
        <<"T","h","i","s"," ","l","o","n","g","i","t","u","d","i","n","a","l"," ","s","t","u",
          "d","y"," ","t","r","a","c","k","s"," ","c","h","a","n","g","e","s"," ","i","n"," ",
          "g","u","t"," ","m","i","c","r","o","b","i","o","t","a"," ","c","o","m","p","o","s",
          "i","t","i","o","n"," ","d","u","r","i","n","g"," ","i","n","f","l","a","m","m","a",
          "t","o","r","y"," ","b","o","w","e","l"," ","d","i","s","e","a","s","e"," ","p","r",
          "o","g","r","e","s","s","i","o","n","."," ","W","e"," ","i","d","e","n","t","i","f",
          "y"," ","s","p","e","c","i","f","i","c"," ","b","a","c","t","e","r","i","a","l"," ",
          "s","i","g","n","a","t","u","r","e","s"," ","t","h","a","t"," ","p","r","e","c","e",
          "d","e"," ","c","l","i","n","i","c","a","l"," ","f","l","a","r","e","s"," ","a","n",
          "d"," ","m","a","y"," ","s","e","r","v","e"," ","a","s"," ","e","a","r","l","y"," ",
          "w","a","r","n","i","n","g"," ","b","i","o","m","a","r","k","e","r","s",".">>,
     authors |-> <<
        <<"A","h","m","e","d"," ","H","a","s","s","a","n">>,
        <<"J","u","l","i","a"," ","C","h","e","n">>,
        <<"M","a","r","c","u","s"," ","W","i","l","l","i","a","m","s">>>>,
     publication_date |->
        <<"A","p","r","i","l"," ">> \o IntToStr(CurrentYear - 1),
     journal |->
        <<"G","a","s","t","r","o","e","n","t","e","r","o","l","o","g","y"," ","R","e","s","e",
          "a","r","c","h">>,
     keywords |-> <<
        <<"m","i","c","r","o","b","i","o","m","e">>,
        <<"i","n","f","l","a","m","m","a","t","o","r","y"," ","b","o","w","e","l"," ","d","i",
          "s","e","a","s","e">>,
        <<"b","i","o","m","a","r","k","e","r","s">>>>,
     article_url |->
        <<"h","t","t","p","s",":","/","/","p","u","b","m","e","d",".","n","c","b","i",".","n",
          "l","m",".","n","i","h",".","g","o","v","/","s","a","m","p","l","e","5","/">>,
     pmid |-> <<"s","a","m","p","l","e","5">>]
generate_mock_data ==
    <<mock_article_1, mock_article_2, mock_article_3, mock_article_4, mock_article_5>>

(* fetch_pubmed_articles (app.py 224-320) *)

\* tag.get_text(strip=True) of a tag holding one text node
GetTextStrip(text) == Strip(text)

\* abstract_tag.get_text(separator=" ", strip=True): the stripped text nodes
\* that are not empty, joined by one space; a Label is an attribute of
\* <AbstractText>, not a text node
AbstractText(sections) ==
    LET texts == [i \in 1..Len(sections) |-> Strip(sections[i].text)]
    IN  JoinStr(<<" ">>, SelectSeq(texts, LAMBDA t : t # <<>>))

\* lines 270-278
AuthorNames(author_tags) ==
    LET named == SelectSeq(author_tags, LAMBDA a : a.lastname # None)
        authors == [i \in 1..Len(named) |->
                      IF named[i].forename # None
                      THEN named[i].forename[1] \o <<" ">> \o named[i].lastname[1]
                      ELSE named[i].lastname[1]]
    IN  IF authors # <<>> THEN authors
        ELSE <<<<"N","o"," ","a","u","t","h","o","r","s"," ","l","i","s","t","e","d">>>>

\* lines 280-284
JournalName(journal_tag) ==
    IF journal_tag # None /\ journal_tag[1].title # None
    THEN GetTextStrip(journal_tag[1].title[1])
    ELSE <<"U","n","k","n","o","w","n"," ","J","o","u","r","n","a","l">>

\* lines 288-298
PubDate(date_tag) ==
    IF date_tag = None THEN <<"N","o"," ","d","a","t","e">>
    ELSE LET d == date_tag[1]
         IN  IF d.year # None /\ d.month # None /\ d.day # None
             THEN d.month[1] \o <<" ">> \o d.day[1] \o <<",", " ">> \o d.year[1]
             ELSE IF d.year # None /\ d.month # None
             THEN d.month[1] \o <<" ">> \o d.year[1]
             ELSE IF d.year # None THEN d.year[1]
             ELSE <<"N","o"," ","d","a","t","e">>

\* line 300
ArticleUrl(pmid) ==
    <<"h","t","t","p","s",":","/","/","p","u","b","m","e","d",".","n","c","b","i",".",
      "n","l","m",".","n","i","h",".","g","o","v","/">> \o pmid \o <<"/">>

\* lines 260-311: one <PubmedArticle> element and the identifier zipped with it
ArticleInfo(article, pmid) ==
    [title |-> IF article.articletitle # None
               THEN GetTextStrip(article.articletitle[1])
               ELSE <<"N","o"," ","t","i","t","l","e">>,
     abstract |-> IF article.abstract # None
                  THEN AbstractText(article.abstract[1])
                  ELSE <<"N","o"," ","a","b","s","t","r","a","c","t"," ",
                         "a","v","a","i","l","a","b","l","e">>,
     authors |-> AuthorNames(article.authors),
     publication_date |-> PubDate(article.pubdate),
     journal |-> JournalName(article.journal),
     keywords |-> [i \in 1..Len(article.keywords) |-> GetTextStrip(article.keywords[i])],
     article_url |-> ArticleUrl(pmid),
     pmid |-> pmid]

Min(a, b) == IF a <= b THEN a ELSE b

\* lines 258-313: for article, pmid in zip(articles_xml, id_list)
ZipArticles(articles_xml, id_list) ==
    [k \in 1..Min(Len(articles_xml), Len(id_list)) |->
        ArticleInfo(articles_xml[k], id_list[k])]

\* lines 234-313, the body of the try
fetch_pubmed_articles_try(query, max_results, use_mock_if_empty, search_resp, fetch_resp) ==
    LET search == EsearchRequest(query, Some(max_results))
        idl == EsearchField(search_resp, "idlist")
        id_list == idl.val
        fetch == EfetchRequest(JoinStr(<<",">>, id_list))
    IN  IF ~idl.ok
        THEN [raised |-> TRUE, ret |-> <<>>, requests |-> <<search>>, warnings |-> 0]
        ELSE IF id_list = <<>>
        THEN IF use_mock_if_empty
             THEN [raised |-> FALSE, ret |-> generate_mock_data,
                   requests |-> <<search>>, warnings |-> 1]
             ELSE [raised |-> FALSE, ret |-> <<>>, requests |-> <<search>>, warnings |-> 0]
        ELSE IF fetch_resp.kind # "xml"
        THEN [raised |-> TRUE, ret |-> <<>>, requests |-> <<search, fetch>>, warnings |-> 0]
        ELSE [raised |-> FALSE, ret |-> ZipArticles(fetch_resp.articles, id_list),
              requests |-> <<search, fetch>>, warnings |-> 0]

\* the except clause of lines 315-320 answers with the list whatever use_mock_if_empty is
fetch_pubmed_articles_NoMockOnError(query, max_results, use_mock_if_empty, search_resp, fetch_resp) ==
    LET t == fetch_pubmed_articles_try(query, max_results, use_mock_if_empty,
                                       search_resp, fetch_resp)
    IN  IF t.raised
        THEN [raised |-> FALSE, ret |-> <<>>, requests |-> t.requests,
              warnings |-> 0, errors |-> 1]
        ELSE [raised |-> FALSE, ret |-> t.ret, requests |-> t.requests,
              warnings |-> t.warnings, errors |-> 0]

\* lines 315-320 with the requests sent a second time after a failure
fetch_pubmed_articles_Retry(query, max_results, use_mock_if_empty, search_resp, fetch_resp) ==
    LET t == fetch_pubmed_articles_try(query, max_results, use_mock_if_empty,
                                       search_resp, fetch_resp)
    IN  IF t.raised
        THEN [raised |-> FALSE,
              ret |-> IF use_mock_if_empty THEN generate_mock_data ELSE <<>>,
              requests |-> t.requests \o t.requests,
              warnings |-> IF use_mock_if_empty THEN 1 ELSE 0,
              errors |-> 1]
        ELSE [raised |-> FALSE, ret |-> t.ret, requests |-> t.requests,
              warnings |-> t.warnings, errors |-> 0]

\* use_mock_if_empty taken as True whatever the caller passes
fetch_pubmed_articles_MockByDefault(query, max_results, use_mock_if_empty, search_resp, fetch_resp) ==
    LET t == fetch_pubmed_articles_try(query, max_results, TRUE, search_resp, fetch_resp)
    IN  IF t.raised
        THEN [raised |-> FALSE, ret |-> generate_mock_data, requests |-> t.requests,
              warnings |-> 1, errors |-> 1]
        ELSE [raised |-> FALSE, ret |-> t.ret, requests |-> t.requests,
              warnings |-> t.warnings, errors |-> 0]

fetch_pubmed_articles(query, max_results, use_mock_if_empty, search_resp, fetch_resp) ==
    LET t == fetch_pubmed_articles_try(query, max_results, use_mock_if_empty,
                                       search_resp, fetch_resp)
    IN  IF t.raised
        THEN [raised |-> FALSE,
              ret |-> IF use_mock_if_empty THEN generate_mock_data ELSE <<>>,
              requests |-> t.requests,
              warnings |-> IF use_mock_if_empty THEN 1 ELSE 0,
              errors |-> 1]
        ELSE [raised |-> FALSE, ret |-> t.ret, requests |-> t.requests,
              warnings |-> t.warnings, errors |-> 0]

----------------------------------------------------------------------------
(* Chat-completion calls (app.py 380-499)                                  *)
(*                                                                         *)
(* The outcome of client.chat.completions.create is                        *)
(*   [kind |-> "api_error"]                    the call raised             *)
(*   [kind |-> "ok", content |-> c]            c the optional message text *)
(* A prompt is kept as the values its f-string is filled with.             *)

SummaryFailed ==
    <<"S","u","m","m","a","r","y"," ","g","e","n","e","r","a","t","i","o","n"," ","f","a",
      "i","l","e","d","."," ","P","l","e","a","s","e"," ","t","r","y"," ","a","g","a","i",
      "n"," ","l","a","t","e","r",".">>

AnswerFailed ==
    <<"Q","u","e","s","t","i","o","n"," ","a","n","s","w","e","r","i","n","g"," ","f","a",
      "i","l","e","d","."," ","P","l","e","a","s","e"," ","t","r","y"," ","a","g","a","i",
      "n"," ","l","a","t","e","r",".">>

AnalysisFailed ==
    <<"A","n","a","l","y","s","i","s"," ","f","a","i","l","e","d","."," ","P","l","e","a",
      "s","e"," ","t","r","y"," ","a","g","a","i","n"," ","l","a","t","e","r",".">>

ChatRequest(system, prompt) ==
    [model |-> "gpt-3.5-turbo", system |-> system, user |-> prompt]

\* response.choices[0].message.content.strip() left untrimmed
ChatReply_Untrimmed(request, completion) ==
    IF completion.kind = "ok" /\ completion.content # None
    THEN [raised |-> FALSE, ret |-> completion.content[1], requests |-> <<request>>]
    ELSE [raised |-> TRUE, ret |-> <<>>, requests |-> <<request>>]

\* client.chat.completions.create(...) then
\* response.choices[0].message.content.strip(), inside the try
ChatReply(request, completion) ==
    IF completion.kind = "ok" /\ completion.content # None
    THEN [raised |-> FALSE, ret |-> Strip(completion.content[1]), requests |-> <<request>>]
    ELSE [raised |-> TRUE, ret |-> <<>>, requests |-> <<request>>]

\* except Exception as e: st.error(...); return <failure string>
OnException(t, failure) ==
    IF t.raised
    THEN [raised |-> FALSE, ret |-> failure, requests |-> t.requests, errors |-> 1]
    ELSE [raised |-> FALSE, ret |-> t.ret, requests |-> t.requests, errors |-> 0]

\* context of extract_key_findings, generate_research_gaps and
\* generate_clinical_recommendations: title and abstract of each article
TitleAbstractContext(articles_data) ==
    [i \in 1..Len(articles_data) |->
        [title |-> articles_data[i].title, abstract |-> articles_data[i].abstract]]

\* context of answer_question (lines 399-404)
QuestionContext(articles_data) ==
    [i \in 1..Len(articles_data) |->
        [title |-> articles_data[i].title,
         abstract |-> articles_data[i].abstract,
         authors |-> JoinStr(<<",", " ">>, articles_data[i].authors),
         journal |-> articles_data[i].journal,
         publication_date |-> articles_data[i].publication_date]]

DefaultMaxLength == 300

summarize_abstract(abstract, completion) ==
    OnException(
        ChatReply(ChatRequest("medical research summarizer",
                              [task |-> "summarize", max_length |-> DefaultMaxLength,
                               abstract |-> abstract]),
                  completion),
        SummaryFailed)

answer_question(question, articles_data, completion) ==
    OnException(
        ChatReply(ChatRequest("medical research assistant",
                              [task |-> "answer", context |-> QuestionContext(articles_data),
                               question |-> question]),
                  completion),
        AnswerFailed)

extract_key_findings(articles_data, completion) ==
    OnException(
        ChatReply(ChatRequest("medical research analyst",
                              [task |-> "key findings",
                               context |-> TitleAbstractContext(articles_data)]),
                  completion),
        AnalysisFailed)

generate_research_gaps(articles_data, completion) ==
    OnException(
        ChatReply(ChatRequest("medical research strategist",
                              [task |-> "research gaps",
                               context |-> TitleAbstractContext(articles_data)]),
                  completion),
        AnalysisFailed)

generate_clinical_recommendations(articles_data, completion) ==
    OnException(
        ChatReply(ChatRequest("medical research consultant",
                              [task |-> "clinical recommendations",
                               context |-> TitleAbstractContext(articles_data)]),
                  completion),
        AnalysisFailed)

----------------------------------------------------------------------------
(* generate_citation (app.py 501-516) *)

Letters ==
    {"a","b","c","d","e","f","g","h","i","j","k","l","m","n","o","p","q","r","s","t",
     "u","v","w","x","y","z","A","B","C","D","E","F","G","H","I","J","K","L","M","N",
     "O","P","Q","R","S","T","U","V","W","X","Y","Z"}

\* the regular expression class \w
IsWordChar(c) == IsDigit(c) \/ c \in Letters \/ c = "_"

\* the regular expression assertion \b in front of s[i] (i = Len(s) + 1: at the end)
WordBoundary(s, i) ==
    (i > 1 /\ IsWordChar(s[i - 1])) # (i <= Len(s) /\ IsWordChar(s[i]))

\* r'\b(19|20)\d{2}\b' matches s at position i
YearAt(s, i) ==
    /\ i + 3 <= Len(s)
    /\ <<s[i], s[i + 1]>> \in {<<"1", "9">>, <<"2", "0">>}
    /\ IsDigit(s[i + 2])
    /\ IsDigit(s[i + 3])
    /\ WordBoundary(s, i)
    /\ WordBoundary(s, i + 4)

\* re.search from position i on: the leftmost match, or None
RECURSIVE year_match(_, _)
year_match(s, i) ==
    IF i > Len(s) THEN None
    ELSE IF YearAt(s, i) THEN Some(SubSeq(s, i, i + 3))
    ELSE year_match(s, i + 1)

\* lines 504-511 with "et al." from the second author on
author_text_EtAlFromTwo(authors) ==
    IF Len(authors) = 1 THEN authors[1]
    ELSE IF Len(authors) >= 2 THEN authors[1] \o <<" ","e","t"," ","a","l",".">>
    ELSE <<"U","n","k","n","o","w","n">>

\* lines 504-511
author_text(authors) ==
    IF Len(authors) = 1 THEN authors[1]
    ELSE IF Len(authors) = 2 THEN authors[1] \o <<" ", "&", " ">> \o authors[2]
    ELSE IF Len(authors) > 2 THEN authors[1] \o <<" ","e","t"," ","a","l",".">>
    ELSE <<"U","n","k","n","o","w","n">>

generate_citation(article) ==
    LET m == year_match(article.publication_date, 1)
        year == IF m # None THEN m[1] ELSE <<"n", ".", "d", ".">>
    IN  author_text(article.authors) \o <<".", " ", "(">> \o year \o <<")", ".", " ">>
        \o article.title \o <<".", " ">> \o article.journal
        \o <<"."," ","R","e","t","r","i","e","v","e","d"," ","f","r","o","m"," ">> \o article.article_url

----------------------------------------------------------------------------
(* Inputs drawn for SpecCalls *)

KeywordTexts == SeqsUpTo({"a", " "}, MaxStrLen)
KeywordLists == SeqsUpTo(KeywordTexts, MaxKeywords)
FieldInputs == {None, Some(<<>>), Some(<<" ">>), Some(<<"b">>)}
YearRangeInputs == {None, Some(<<>>), Some(<<MinYear>>), Some(<<MinYear, CurrentYear>>)}

\* query strings handed to the fetch functions
CallQueries ==
    {build_pubmed_query(<<<<"a">>>>, None, None, None, None, AND),
     build_pubmed_query(<<>>, Some(<<"b">>), Some(<<MinYear, CurrentYear>>), None, None, OR)}

IdTexts == {<<"1">>, <<"2">>}
IdLists == SeqsUpTo(IdTexts, MaxIds)

\* the count field of a search response: the decimal text of a count, or a
\* text that is no number
NumericCountTexts == {IntToStr(n) : n \in 0..MaxCount}
BadCountTexts == {<<>>, <<"x">>, <<"4", "x">>, <<"1", ".", "5">>}

Optional(S) == {None} \cup {Some(v) : v \in S}

SearchBodies ==
    {[esearchresult |-> None]}
    \cup {[esearchresult |-> Some([count |-> c, idlist |-> l])] :
            c \in Optional(NumericCountTexts \cup BadCountTexts), l \in Optional(IdLists)}

SearchResponses ==
    {[kind |-> "network_error"], [kind |-> "bad_json"]}
    \cup {[kind |-> "json", body |-> b] : b \in SearchBodies}

\* a <PubmedArticle> with every element the code reads
XmlFull ==
    [articletitle |-> Some(<<" ", "T", "1">>),
     abstract |-> Some(<<[label |-> Some(<<"B", "g">>), text |-> <<"A">>],
                         [label |-> Some(<<"M", "e">>), text |-> <<"B", " ">>]>>),
     pubdate |-> Some([year |-> Some(<<"2", "0", "2", "0">>),
                       month |-> Some(<<"J", "a", "n">>),
                       day |-> Some(<<"5">>)]),
     authors |-> <<[lastname |-> Some(<<"L", "a">>), forename |-> Some(<<"F", "o">>),
                    initials |-> Some(<<"F">>), collectivename |-> None],
                   [lastname |-> Some(<<"L", "b">>), forename |-> None,
                    initials |-> Some(<<"I">>), collectivename |-> None],
                   [lastname |-> None, forename |-> None,
                    initials |-> None, collectivename |-> Some(<<"G", "r">>)]>>,
     journal |-> Some([title |-> Some(<<"J", "1">>)]),
     keywords |-> <<<<"k", "1">>>>,
     mesh |-> <<<<"m", "1">>>>]

\* a <PubmedArticle> with none of them (it has a MeSH heading, which the code does
\* not read)
XmlBare ==
    [articletitle |-> None, abstract |-> None, pubdate |-> None, authors |-> <<>>,
     journal |-> None, keywords |-> <<>>, mesh |-> <<<<"m", "2">>>>]

XmlArticles == {XmlFull, XmlBare}

FetchResponses ==
    {[kind |-> "network_error"], [kind |-> "parser_error"]}
    \cup {[kind |-> "xml", articles |-> a] : a \in SeqsUpTo(XmlArticles, MaxIds)}

ReplyTexts == SeqsUpTo({"x", " "}, MaxReply)

Completions ==
    {[kind |-> "api_error"]} \cup {[kind |-> "ok", content |-> c] : c \in Optional(ReplyTexts)}

\* article lists handed to the chat functions
ArticleLists ==
    {<<>>, generate_mock_data, ZipArticles(<<XmlFull, XmlBare>>, <<<<"1">>, <<"2">>>>)}

Questions == {<<"q", "?">>}

\* authors and publication dates of the records handed to generate_citation
AuthorLists == SeqsUpTo({<<"A", "b">>, <<"C">>}, MaxAuthors)

CitationDates ==
    {<<"N","o"," ","d","a","t","e">>, <<"2","0","2","0">>, <<"J","a","n"," ","5",","," ","2","0","2","0">>, <<"J","a","n"," ","1","8","9","9">>,
     <<"1","2","0","2","0">>, <<"2","0","2","0","x">>, <<"1","9","9","9","-","2","0","2","0">>, <<"2","0"," ","2","1","0","1"," ","1","9","5","0",",">>,
     <<"_","2","0","2","0"," ">>, <<>>}

NoCall == [fn |-> "none"]

Call_build_pubmed_query ==
    /\ call = NoCall
    /\ \E keywords \in KeywordLists, disease \in FieldInputs,
          year_range \in YearRangeInputs, author \in FieldInputs,
          journal \in FieldInputs, logic_operator \in {AND, OR} :
            call' = [fn |-> "build_pubmed_query",
                     keywords |-> keywords, disease |-> disease,
                     year_range |-> year_range, author |-> author,
                     journal |-> journal, logic_operator |-> logic_operator,
                     ret |-> build_pubmed_query(keywords, disease, year_range,
                                                author, journal, logic_operator)]
    /\ UNCHANGED session_vars

Call_fetch_pubmed_count ==
    /\ call = NoCall
    /\ \E query \in CallQueries, resp \in SearchResponses :
            call' = [fn |-> "fetch_pubmed_count", query |-> query, resp |-> resp,
                     out |-> fetch_pubmed_count(query, resp)]
    /\ UNCHANGED session_vars

Call_fetch_pubmed_articles ==
    /\ call = NoCall
    /\ \E query \in CallQueries, use_mock_if_empty \in BOOLEAN,
          search_resp \in SearchResponses, fetch_resp \in FetchResponses :
            call' = [fn |-> "fetch_pubmed_articles", query |-> query,
                     max_results |-> DefaultMaxResults,
                     use_mock_if_empty |-> use_mock_if_empty,
                     search_resp |-> search_resp, fetch_resp |-> fetch_resp,
                     out |-> fetch_pubmed_articles(query, DefaultMaxResults,
                                                   use_mock_if_empty, search_resp,
                                                   fetch_resp)]
    /\ UNCHANGED session_vars

Call_summarize_abstract ==
    /\ call = NoCall
    /\ \E a \in {generate_mock_data[1], ZipArticles(<<XmlBare>>, <<<<"1">>>>)[1]},
          completion \in Completions :
            call' = [fn |-> "summarize_abstract", completion |-> completion,
                     out |-> summarize_abstract(a.abstract, completion)]
    /\ UNCHANGED session_vars

Call_answer_question ==
    /\ call = NoCall
    /\ \E question \in Questions, articles_data \in ArticleLists,
          completion \in Completions :
            call' = [fn |-> "answer_question", completion |-> completion,
                     out |-> answer_question(question, articles_data, completion)]
    /\ UNCHANGED session_vars

Call_extract_key_findings ==
    /\ call = NoCall
    /\ \E articles_data \in ArticleLists, completion \in Completions :
            call' = [fn |-> "extract_key_findings", completion |-> completion,
                     out |-> extract_key_findings(articles_data, completion)]
    /\ UNCHANGED session_vars

Call_generate_research_gaps ==
    /\ call = NoCall
    /\ \E articles_data \in ArticleLists, completion \in Completions :
            call' = [fn |-> "generate_research_gaps", completion |-> completion,
                     out |-> generate_research_gaps(articles_data, completion)]
    /\ UNCHANGED session_vars

Call_generate_clinical_recommendations ==
    /\ call = NoCall
    /\ \E articles_data \in ArticleLists, completion \in Completions :
            call' = [fn |-> "generate_clinical_recommendations",
                     completion |-> completion,
                     out |-> generate_clinical_recommendations(articles_data, completion)]
    /\ UNCHANGED session_vars

Call_generate_citation ==
    /\ call = NoCall
    /\ \E authors \in AuthorLists, publication_date \in CitationDates :
        LET article == [ZipArticles(<<XmlFull>>, <<<<"1">>>>)[1] EXCEPT
                            !.authors = authors,
                            !.publication_date = publication_date]
        IN  call' = [fn |-> "generate_citation", article |-> article,
                     out |-> generate_citation(article)]
    /\ UNCHANGED session_vars

----------------------------------------------------------------------------
(* The session: script runs of app.py (lines 519-929)                      *)
(*                                                                         *)
(* Streamlit runs the script top to bottom on every interaction.  A run is *)
(* the widget's handler (pc "idle" -> "render") followed by the main       *)
(* content area in source order: the Articles tab ("render"), the Analysis *)
(* tab ("analysis") and the Q&A tab ("qa").  An uncaught exception ends    *)
(* the run where it is raised (pc "crashed"); session_state keeps what was *)
(* written before it.                                                      *)

\* sample_searches (app.py 889-895): keywords and disease of each entry
sample_searches == <<
    [keywords |->
        <<"C","O","V","I","D","-","1","9",","," ","t","r","e","a","t","m","e","n","t",","," ",
          "t","e","l","e","h","e","a","l","t","h">>,
     disease |->
        <<"C","O","V","I","D","-","1","9">>],
    [keywords |->
        <<"t","e","l","e","h","e","a","l","t","h",","," ","t","e","l","e","m","e","d","i","c",
          "i","n","e",","," ","r","e","m","o","t","e">>,
     disease |->
        <<"O","p","i","o","i","d"," ","U","s","e"," ","D","i","s","o","r","d","e","r">>],
    [keywords |->
        <<"i","m","m","u","n","o","t","h","e","r","a","p","y",","," ","o","u","t","c","o","m",
          "e","s",","," ","s","u","r","v","i","v","a","l">>,
     disease |->
        <<"c","a","n","c","e","r">>],
    [keywords |->
        <<"c","o","n","t","r","o","l",","," ","s","t","r","a","t","e","g","y",","," ","i","n",
          "t","e","r","v","e","n","t","i","o","n">>,
     disease |->
        <<"h","y","p","e","r","t","e","n","s","i","o","n">>],
    [keywords |->
        <<"t","e","l","e","h","e","a","l","t","h",","," ","t","e","l","e","m","e","d","i","c",
          "i","n","e",","," ","r","e","m","o","t","e">>,
     disease |->
        <<"M","e","n","t","a","l"," ","H","e","a","l","t","h">>]>>

\* sample_questions (app.py 727-733)
sample_questions == <<
    <<"W","h","a","t"," ","a","r","e"," ","t","h","e"," ","m","a","i","n"," ","t","r","e",
      "a","t","m","e","n","t"," ","a","p","p","r","o","a","c","h","e","s"," ","d","i","s",
      "c","u","s","s","e","d"," ","i","n"," ","t","h","e","s","e"," ","a","r","t","i","c",
      "l","e","s","?">>,
    <<"W","h","a","t"," ","m","e","t","h","o","d","o","l","o","g","i","e","s"," ","w","e",
      "r","e"," ","u","s","e","d"," ","a","c","r","o","s","s"," ","t","h","e","s","e"," ",
      "s","t","u","d","i","e","s","?">>,
    <<"W","h","a","t"," ","a","r","e"," ","t","h","e"," ","l","i","m","i","t","a","t","i",
      "o","n","s"," ","o","f"," ","t","h","e"," ","r","e","s","e","a","r","c","h"," ","p",
      "r","e","s","e","n","t","e","d","?">>,
    <<"H","o","w"," ","d","o"," ","t","h","e","s","e"," ","f","i","n","d","i","n","g","s",
      " ","i","m","p","a","c","t"," ","c","l","i","n","i","c","a","l"," ","p","r","a","c",
      "t","i","c","e","?">>,
    <<"W","h","a","t"," ","p","a","t","i","e","n","t"," ","p","o","p","u","l","a","t","i",
      "o","n","s"," ","w","e","r","e"," ","i","n","c","l","u","d","e","d"," ","i","n"," ",
      "t","h","e","s","e"," ","s","t","u","d","i","e","s","?">>>>

\* s.split(c)
RECURSIVE SplitOn(_, _)
SplitOn(s, c) ==
    IF \E i \in 1..Len(s) : s[i] = c
    THEN LET i == CHOOSE i \in 1..Len(s) : s[i] = c /\ \A j \in 1..(i - 1) : s[j] # c
         IN  <<SubSeq(s, 1, i - 1)>> \o SplitOn(SubSeq(s, i + 1, Len(s)), c)
    ELSE <<s>>

\* [k.strip() for k in keywords.split(',') if k.strip()] (lines 593, 906)
KeywordList(text) ==
    LET parts == SplitOn(text, ",")
        stripped == [i \in 1..Len(parts) |-> Strip(parts[i])]
    IN  SelectSeq(stripped, LAMBDA k : k # <<>>)

\* search_history[-5:] (line 570)
RecentSearches(h) ==
    SubSeq(h, IF Len(h) > HistoryShown THEN Len(h) - HistoryShown + 1 ELSE 1, Len(h))

\* lines 599-600 without the membership test
Remember_Always(h, query) == Append(h, query)

\* if query not in search_history: search_history.append(query) (lines 599-600)
Remember(h, query) ==
    IF \E i \in 1..Len(h) : h[i] = query THEN h ELSE Append(h, query)

\* what the user submits with the search form (lines 547-566)
FormInputs ==
    {[keywords |-> k, disease |-> <<>>, logic_operator |-> AND,
      start_year |-> CurrentYear - 5, end_year |-> CurrentYear,
      author |-> <<>>, journal |-> <<>>, max_results |-> DefaultMaxResults] :
        k \in {<<>>, <<"a", ",", " ">>}}

\* the form holds no keyword, disease, author or journal
BlankForm(f) ==
    /\ Strip(f.keywords) = <<>>
    /\ Strip(f.disease) = <<>>
    /\ Strip(f.author) = <<>>
    /\ Strip(f.journal) = <<>>

\* the sample searches and sample questions the user clicks
SampleChoices == {1}
SampleQuestionChoices == {1}
TypedQuestions == {<<"q", "?">>}

\* PubMed's and the chat endpoint's answers during a session
SessionCountResponses ==
    {[kind |-> "json",
      body |-> [esearchresult |-> Some([count |-> Some(<<"7">>), idlist |-> Some(<<>>)])]]}

SessionSearchResponses ==
    {[kind |-> "network_error"]}
    \cup {[kind |-> "json",
           body |-> [esearchresult |-> Some([count |-> Some(<<"7">>), idlist |-> Some(l)])]] :
            l \in {<<>>, <<<<"1">>, <<"2">>>>, <<<<"1">>, <<"1">>>>}}

SessionFetchResponses ==
    {[kind |-> "network_error"],
     [kind |-> "xml", articles |-> <<XmlFull, XmlBare>>]}

SessionCompletions ==
    {[kind |-> "api_error"],
     [kind |-> "ok", content |-> Some(<<"x", " ">>)]}

\* the key-findings request may also be answered with a text that is blank
AnalysisCompletions ==
    SessionCompletions \cup {[kind |-> "ok", content |-> Some(<<" ">>)]}

NoAnalysisRequests ==
    [key_findings |-> 0, research_gaps |-> 0, clinical_recommendations |-> 0]

NoRun ==
    [handler |-> "none", index |-> 0, searched |-> FALSE, blank |-> FALSE,
     requests |-> <<>>, warnings |-> 0, errors |-> 0, fetched |-> None]

\* the page of the last run is on screen with its main content area
PageShown == pc = "idle"
\* the last run is over
RunOver == pc \in {"idle", "crashed"}

\* lines 598-608 without line 605: the summaries of the previous articles are kept
Search_KeepSummaries(handler, blank, query, max_results) ==
    \E count_resp \in SessionCountResponses, search_resp \in SessionSearchResponses,
       fetch_resp \in SessionFetchResponses :
        LET count == fetch_pubmed_count(query, count_resp)
            found == fetch_pubmed_articles(query, max_results, FALSE, search_resp, fetch_resp)
        IN  /\ last_query' = query
            /\ search_history' = Remember(search_history, query)
            /\ result_count' = count.ret
            /\ articles' = found.ret
            /\ article_summaries' = article_summaries
            /\ key_findings' = <<>>
            /\ research_gaps' = <<>>
            /\ clinical_recommendations' = <<>>
            /\ summary_requests' = <<>>
            /\ analysis_requests' = NoAnalysisRequests
            /\ run' = [handler |-> handler, index |-> 0, searched |-> TRUE,
                       blank |-> blank,
                       requests |-> count.requests \o found.requests,
                       warnings |-> found.warnings, errors |-> found.errors,
                       fetched |-> Some(found.ret)]

\* lines 598-608 and 908-917: the search both handlers run
Search(handler, blank, query, max_results) ==
    \E count_resp \in SessionCountResponses, search_resp \in SessionSearchResponses,
       fetch_resp \in SessionFetchResponses :
        LET count == fetch_pubmed_count(query, count_resp)
            found == fetch_pubmed_articles(query, max_results, FALSE, search_resp, fetch_resp)
        IN  /\ last_query' = query
            /\ search_history' = Remember(search_history, query)
            /\ result_count' = count.ret
            /\ articles' = found.ret
            /\ article_summaries' = <<>>
            /\ key_findings' = <<>>
            /\ research_gaps' = <<>>
            /\ clinical_recommendations' = <<>>
            /\ summary_requests' = <<>>
            /\ analysis_requests' = NoAnalysisRequests
            /\ run' = [handler |-> handler, index |-> 0, searched |-> TRUE,
                       blank |-> blank,
                       requests |-> count.requests \o found.requests,
                       warnings |-> found.warnings, errors |-> found.errors,
                       fetched |-> Some(found.ret)]

\* lines 592-610: the run in which "Search PubMed" was pressed
FormSubmit ==
    /\ RunOver
    /\ \E f \in FormInputs :
        LET keyword_list == KeywordList(f.keywords)
            year_range == IF f.start_year # 0 /\ f.end_year # 0
                          THEN Some(<<f.start_year, f.end_year>>) ELSE None
            query == build_pubmed_query(keyword_list, Some(f.disease), year_range,
                                        Some(f.author), Some(f.journal), f.logic_operator)
        IN  IF query # <<>>
            THEN Search("form", BlankForm(f), query, f.max_results)
            ELSE /\ run' = [NoRun EXCEPT !.handler = "form", !.blank = BlankForm(f),
                                         !.warnings = 1]
                 /\ UNCHANGED <<last_query, search_history, result_count, articles,
                                article_summaries, key_findings, research_gaps,
                                clinical_recommendations, summary_requests,
                                analysis_requests>>
    /\ pc' = "render"
    /\ qa_asked' = <<>>
    /\ UNCHANGED <<user_question, question_input, call>>

\* lines 568-580: the run in which a "Recent Searches" button was pressed.  After a
\* crashed run only the buttons drawn before the exception are on screen.
\* Line 575 calls fetch_publications, a name app.py never defines: NameError,
\* raised after lines 572 and 574 have written last_query and result_count.
HistoryClick ==
    /\ RunOver
    /\ search_history # <<>>
    /\ \E i \in 1..Len(RecentSearches(search_history)),
          count_resp \in SessionCountResponses :
        LET history_item == RecentSearches(search_history)[i]
            count == fetch_pubmed_count(history_item, count_resp)
        IN  /\ pc = "crashed" => i <= run.index
            /\ last_query' = history_item
            /\ result_count' = count.ret
            /\ run' = [handler |-> "history", index |-> i, searched |-> TRUE,
                       blank |-> FALSE, requests |-> count.requests,
                       warnings |-> 0, errors |-> 0, fetched |-> None]
    /\ pc' = "crashed"
    /\ qa_asked' = <<>>
    /\ UNCHANGED <<articles, article_summaries, search_history, key_findings,
                   research_gaps, clinical_recommendations, user_question,
                   question_input, summary_requests, analysis_requests, call>>

\* lines 905-918: the run in which "Try This Search" was pressed on the welcome
\* page; st.rerun() starts the next run at once
SampleClick ==
    /\ PageShown
    /\ articles = <<>>
    /\ \E i \in SampleChoices :
        LET sample == sample_searches[i]
            keyword_list == KeywordList(sample.keywords)
            query == build_pubmed_query(keyword_list, Some(sample.disease), None,
                                        None, None, AND)
        IN  Search("sample", FALSE, query, DefaultMaxResults)
    /\ pc' = "render"
    /\ qa_asked' = <<>>
    /\ UNCHANGED <<user_question, question_input, call>>

\* line 716: the user enters a question in the Q&A tab
AskQuestion ==
    /\ PageShown
    /\ articles # <<>>
    /\ \E q \in TypedQuestions :
        /\ q # question_input
        /\ question_input' = q
    /\ run' = [NoRun EXCEPT !.handler = "question"]
    /\ pc' = "render"
    /\ qa_asked' = <<>>
    /\ UNCHANGED <<articles, last_query, result_count, article_summaries,
                   search_history, key_findings, research_gaps,
                   clinical_recommendations, user_question, summary_requests,
                   analysis_requests, call>>

\* lines 734-737: the user presses a sample question; the run reaches the button
\* after the three tabs above it
SampleQuestionClick ==
    /\ PageShown
    /\ articles # <<>>
    /\ \E s \in SampleQuestionChoices :
        run' = [NoRun EXCEPT !.handler = "sample_question", !.index = s]
    /\ pc' = "render"
    /\ qa_asked' = <<>>
    /\ UNCHANGED <<articles, last_query, result_count, article_summaries,
                   search_history, key_findings, research_gaps,
                   clinical_recommendations, user_question, question_input,
                   summary_requests, analysis_requests, call>>

\* any other widget of the page (the export format of line 743, a download)
Rerun ==
    /\ PageShown
    /\ articles # <<>>
    /\ run' = [NoRun EXCEPT !.handler = "rerun"]
    /\ pc' = "render"
    /\ qa_asked' = <<>>
    /\ UNCHANGED <<articles, last_query, result_count, article_summaries,
                   search_history, key_findings, research_gaps,
                   clinical_recommendations, user_question, question_input,
                   summary_requests, analysis_requests, call>>

\* line 656 with the test dropped
NeedsSummary_Always(pmid, summaries) == TRUE

\* line 656: article['pmid'] not in st.session_state.article_summaries
NeedsSummary(pmid, summaries) == pmid \notin DOMAIN summaries

\* d[key] = value
Put(d, key, value) ==
    [k \in DOMAIN d \cup {key} |-> IF k = key THEN value ELSE d[k]]

\* one more request counted for pmid, up to MaxCounted
Bump(counts, pmid) ==
    Put(counts, pmid,
        IF pmid \in DOMAIN counts THEN Min(counts[pmid] + 1, MaxCounted) ELSE 1)

\* lines 647-661: the loop over the first k articles
RECURSIVE ArticlesTab(_, _, _, _, _)
ArticlesTab(arts, summaries, counts, completions, k) ==
    IF k = 0 THEN [summaries |-> summaries, counts |-> counts]
    ELSE LET before == ArticlesTab(arts, summaries, counts, completions, k - 1)
             pmid == arts[k].pmid
         IN  IF NeedsSummary(pmid, before.summaries)
             THEN [summaries |->
                     Put(before.summaries, pmid,
                         summarize_abstract(arts[k].abstract, completions[k]).ret),
                   counts |-> Bump(before.counts, pmid)]
             ELSE before

\* lines 613-671, or the welcome page of lines 881-929 when there is no article
RenderArticles ==
    /\ pc = "render"
    /\ IF articles = <<>>
       THEN /\ pc' = "idle"
            /\ run' = NoRun
            /\ UNCHANGED <<article_summaries, summary_requests>>
       ELSE /\ \E completions \in [1..Len(articles) -> SessionCompletions] :
                LET done == ArticlesTab(articles, article_summaries, summary_requests,
                                        completions, Len(articles))
                IN  /\ article_summaries' = done.summaries
                    /\ summary_requests' = done.counts
            /\ pc' = "analysis"
            /\ run' = run
    /\ UNCHANGED <<articles, last_query, result_count, search_history, key_findings,
                   research_gaps, clinical_recommendations, user_question,
                   question_input, analysis_requests, qa_asked, call>>

\* lines 673-683
RenderAnalysis ==
    /\ pc = "analysis"
    /\ \E c1 \in AnalysisCompletions, c2 \in SessionCompletions, c3 \in SessionCompletions :
        /\ analysis_requests' =
             [key_findings |->
                 IF key_findings = <<>>
                 THEN Min(analysis_requests.key_findings + 1, MaxCounted)
                 ELSE analysis_requests.key_findings,
              research_gaps |->
                 IF research_gaps = <<>>
                 THEN Min(analysis_requests.research_gaps + 1, MaxCounted)
                 ELSE analysis_requests.research_gaps,
              clinical_recommendations |->
                 IF clinical_recommendations = <<>>
                 THEN Min(analysis_requests.clinical_recommendations + 1, MaxCounted)
                 ELSE analysis_requests.clinical_recommendations]
        /\ key_findings' =
             IF key_findings = <<>> THEN extract_key_findings(articles, c1).ret
             ELSE key_findings
        /\ research_gaps' =
             IF research_gaps = <<>> THEN generate_research_gaps(articles, c2).ret
             ELSE research_gaps
        /\ clinical_recommendations' =
             IF clinical_recommendations = <<>>
             THEN generate_clinical_recommendations(articles, c3).ret
             ELSE clinical_recommendations
    /\ pc' = "qa"
    /\ UNCHANGED <<articles, last_query, result_count, article_summaries,
                   search_history, user_question, question_input, run,
                   summary_requests, qa_asked, call>>

\* lines 717-724 without the test that the text typed is not empty
QATab_NoBlankTest(typed, stored, articles_data, completion) ==
    IF typed # stored
    THEN [user_question |-> typed,
          requests |-> answer_question(typed, articles_data, completion).requests]
    ELSE IF stored # <<>>
    THEN [user_question |-> stored,
          requests |-> answer_question(stored, articles_data, completion).requests]
    ELSE [user_question |-> stored, requests |-> <<>>]

\* lines 716-724: typed is the text of the question box, stored is
\* st.session_state.user_question; the answer is shown and not kept
QATab(typed, stored, articles_data, completion) ==
    IF typed # <<>> /\ typed # stored
    THEN [user_question |-> typed,
          requests |-> answer_question(typed, articles_data, completion).requests]
    ELSE IF stored # <<>>
    THEN [user_question |-> stored,
          requests |-> answer_question(stored, articles_data, completion).requests]
    ELSE [user_question |-> stored, requests |-> <<>>]

\* lines 712-737 (the export tab of lines 740-879 writes no session state); a
\* pressed sample question is stored after the Q&A block has run, and
\* st.rerun() starts the next run
RenderQA ==
    /\ pc = "qa"
    /\ \E completion \in SessionCompletions :
        LET tab == QATab(question_input, user_question, articles, completion)
        IN  /\ qa_asked' = [i \in 1..Len(tab.requests) |->
                              [request |-> tab.requests[i], searched |-> run.searched]]
            /\ IF run.handler = "sample_question"
               THEN /\ user_question' = sample_questions[run.index]
                    /\ run' = [NoRun EXCEPT !.handler = "rerun"]
                    /\ pc' = "render"
               ELSE /\ user_question' = tab.user_question
                    /\ run' = NoRun
                    /\ pc' = "idle"
    /\ UNCHANGED <<articles, last_query, result_count, article_summaries,
                   search_history, key_findings, research_gaps,
                   clinical_recommendations, question_input, summary_requests,
                   analysis_requests, call>>

----------------------------------------------------------------------------
(* Specifications *)

InitSession ==
    /\ articles = <<>>
    /\ last_query = <<>>
    /\ result_count = 0
    /\ article_summaries = <<>>
    /\ search_history = <<>>
    /\ key_findings = <<>>
    /\ research_gaps = <<>>
    /\ clinical_recommendations = <<>>
    /\ user_question = <<>>
    /\ question_input = <<>>
    /\ pc = "idle"
    /\ run = NoRun
    /\ summary_requests = <<>>
    /\ analysis_requests = NoAnalysisRequests
    /\ qa_asked = <<>>

Init == InitSession /\ call = NoCall

NextCalls ==
    \/ Call_build_pubmed_query
    \/ Call_fetch_pubmed_count
    \/ Call_fetch_pubmed_articles
    \/ Call_summarize_abstract
    \/ Call_answer_question
    \/ Call_extract_key_findings
    \/ Call_generate_research_gaps
    \/ Call_generate_clinical_recommendations
    \/ Call_generate_citation

SpecCalls == Init /\ [][NextCalls]_vars

Next ==
    \/ FormSubmit
    \/ HistoryClick
    \/ SampleClick
    \/ AskQuestion
    \/ SampleQuestionClick
    \/ Rerun
    \/ RenderArticles
    \/ RenderAnalysis
    \/ RenderQA

Spec == Init /\ [][Next]_vars

----------------------------------------------------------------------------
(* C1: build_pubmed_query returns exactly the produced clauses, in the     *)
(* order keywords, disease, year range, author, journal, with the operator *)
(* surrounded by single spaces between each two consecutive clauses (n     *)
(* clauses, n-1 separators), and returns the empty string exactly when no  *)
(* clause was produced.                                                    *)

C1_Clauses(c) ==
    (IF \E i \in 1..Len(c.keywords) : Strip(c.keywords[i]) # <<>>
        THEN <<KeywordClause(c.keywords)>> ELSE <<>>)
    \o (IF NonBlank(c.disease) THEN <<DiseaseClause(c.disease[1])>> ELSE <<>>)
    \o (IF c.year_range # None /\ Len(c.year_range[1]) = 2
        THEN <<YearClause(c.year_range[1])>> ELSE <<>>)
    \o (IF NonBlank(c.author) THEN <<AuthorClause(c.author[1])>> ELSE <<>>)
    \o (IF NonBlank(c.journal) THEN <<JournalClause(c.journal[1])>> ELSE <<>>)

\* where clause k starts in the joined text, less one
RECURSIVE C1_Offset(_, _, _)
C1_Offset(cl, sepLen, k) ==
    IF k = 1 THEN 0 ELSE C1_Offset(cl, sepLen, k - 1) + Len(cl[k - 1]) + sepLen

C1_QueryIsJoinedClauses ==
    call.fn = "build_pubmed_query" =>
        LET cl == C1_Clauses(call)
            n == Len(cl)
            sep == <<" ">> \o call.logic_operator \o <<" ">>
            off(k) == C1_Offset(cl, Len(sep), k)
        IN  /\ (call.ret = <<>>) <=> (n = 0)
            /\ n >= 1 => Len(call.ret) = off(n) + Len(cl[n])
            /\ \A k \in 1..n :
                 SubSeq(call.ret, off(k) + 1, off(k) + Len(cl[k])) = cl[k]
            /\ \A k \in 1..(n - 1) :
                 SubSeq(call.ret, off(k) + Len(cl[k]) + 1, off(k + 1)) = sep

C1_Witness ==
    /\ call.fn = "build_pubmed_query"
    /\ Len(C1_Clauses(call)) = 5
    /\ call.logic_operator = OR

----------------------------------------------------------------------------
(* C2 (as amended): for every keyword list with at least one keyword that  *)
(* holds a non-whitespace character, the query opens with one parenthesised*)
(* clause that holds exactly those keywords, each wrapped in double        *)
(* quotes, in list order, separated by single spaces; keywords that are    *)
(* empty or all whitespace are left out.                                   *)

Contains(s, sub) ==
    \E p \in 1..(Len(s) - Len(sub) + 1) : SubSeq(s, p, p + Len(sub) - 1) = sub

C2_Quoted(kws) == [i \in 1..Len(kws) |-> <<"\"">> \o kws[i] \o <<"\"">>]

C2_NonBlankKeywordsQuoted ==
    call.fn = "build_pubmed_query" =>
        LET nb == SelectSeq(call.keywords,
                            LAMBDA kw : \E i \in 1..Len(kw) : ~IsSpace(kw[i]))
            q == C2_Quoted(nb)
            m == Len(q)
            off(k) == 1 + C1_Offset(q, 1, k)
            clen == off(m) + Len(q[m]) + 1
        IN  m >= 1 =>
              /\ Len(call.ret) >= clen
              /\ call.ret[1] = "("
              /\ call.ret[clen] = ")"
              /\ \A k \in 1..m : SubSeq(call.ret, off(k) + 1, off(k) + Len(q[k])) = q[k]
              /\ \A k \in 1..(m - 1) : call.ret[off(k) + Len(q[k]) + 1] = " "

\* a list with a blank and a non-blank keyword was passed
C2_Witness ==
    /\ call.fn = "build_pubmed_query"
    /\ call.keywords = <<<<" ">>, <<"a">>>>
    /\ Contains(call.ret, <<"(", "\"", "a", "\"", ")">>)

\* C2 as stated: every keyword of a non-empty list appears quoted
C2_EveryKeywordQuoted ==
    (call.fn = "build_pubmed_query" /\ call.keywords # <<>>) =>
        \A i \in 1..Len(call.keywords) :
            Contains(call.ret, <<"\"">> \o call.keywords[i] \o <<"\"">>)

----------------------------------------------------------------------------
(* C4: fetch_pubmed_count issues exactly one search request, never raises, *)
(* returns the integer value of esearchresult.count when the response is   *)
(* well formed, and 0 on a network error, malformed JSON, a missing field  *)
(* or a count that is no number.                                           *)

C4_CountOrZero ==
    call.fn = "fetch_pubmed_count" =>
        LET r == call.resp
            wellformed ==
                /\ r.kind = "json"
                /\ r.body.esearchresult # None
                /\ r.body.esearchresult[1].count # None
                /\ r.body.esearchresult[1].count[1] \in NumericCountTexts
        IN  /\ ~call.out.raised
            /\ Len(call.out.requests) = 1
            /\ call.out.requests[1].endpoint = "esearch"
            /\ call.out.requests[1].term = call.query
            /\ wellformed =>
                 \E n \in 0..MaxCount :
                    /\ r.body.esearchresult[1].count[1] = IntToStr(n)
                    /\ call.out.ret = n
            /\ ~wellformed => call.out.ret = 0 /\ call.out.errors = 1

\* the response of the spec's example: count "42", two identifiers
C4_Witness ==
    /\ call.fn = "fetch_pubmed_count"
    /\ call.resp.kind = "json"
    /\ call.resp.body.esearchresult =
         Some([count |-> Some(<<"4", "2">>), idlist |-> Some(<<<<"1">>, <<"2">>>>)])
    /\ call.out.ret = 42

----------------------------------------------------------------------------
(* C5: fetch_pubmed_articles never raises; when the search returns no      *)
(* identifier, or the search call, the fetch call or the XML parse raises, *)
(* it returns the five demonstration records (pmids sample1..sample5, in   *)
(* that order) if substitution is enabled and the empty list if not.       *)

C5_SearchFailed(c) ==
    \/ c.search_resp.kind # "json"
    \/ c.search_resp.body.esearchresult = None
    \/ c.search_resp.body.esearchresult[1].idlist = None

C5_Ids(c) == c.search_resp.body.esearchresult[1].idlist[1]

C5_Degenerate(c) ==
    \/ C5_SearchFailed(c)
    \/ C5_Ids(c) = <<>>
    \/ c.fetch_resp.kind \in {"network_error", "parser_error"}

C5_IsDemoList(l) ==
    /\ Len(l) = 5
    /\ \A i \in 1..5 :
         /\ l[i].pmid = <<"s", "a", "m", "p", "l", "e">> \o <<Digits[i + 1]>>
         /\ l[i].title = generate_mock_data[i].title

C5_DegenerateFetch ==
    call.fn = "fetch_pubmed_articles" =>
        /\ ~call.out.raised
        /\ (C5_Degenerate(call) /\ call.use_mock_if_empty) => C5_IsDemoList(call.out.ret)
        /\ (C5_Degenerate(call) /\ ~call.use_mock_if_empty) => call.out.ret = <<>>

\* the XML parse raised after a search that returned identifiers, with
\* substitution enabled
C5_Witness ==
    /\ call.fn = "fetch_pubmed_articles"
    /\ call.use_mock_if_empty
    /\ ~C5_SearchFailed(call)
    /\ C5_Ids(call) # <<>>
    /\ call.fetch_resp.kind = "parser_error"
    /\ Len(call.out.ret) = 5

----------------------------------------------------------------------------
(* C6: the list a successful fetch_pubmed_articles call returns has the    *)
(* length and order of the identifier list of the search response, its     *)
(* k-th record carries the k-th identifier as pmid, and its article_url is *)
(* "https://pubmed.ncbi.nlm.nih.gov/{pmid}/".                              *)

C6_Successful(c) ==
    /\ c.fn = "fetch_pubmed_articles"
    /\ ~C5_SearchFailed(c)
    /\ C5_Ids(c) # <<>>
    /\ c.fetch_resp.kind = "xml"

C6_PositionalCorrespondence ==
    C6_Successful(call) =>
        /\ Len(call.out.ret) = Len(C5_Ids(call))
        /\ \A k \in 1..Len(call.out.ret) :
             /\ call.out.ret[k].pmid = C5_Ids(call)[k]
             /\ call.out.ret[k].article_url =
                  <<"h","t","t","p","s",":","/","/","p","u","b","m","e","d",".","n","c",
                    "b","i",".","n","l","m",".","n","i","h",".","g","o","v","/">>
                  \o call.out.ret[k].pmid \o <<"/">>

----------------------------------------------------------------------------
(* C7: no two records of the list one fetch_pubmed_articles call returns   *)
(* have the same pmid.                                                     *)

C7_PmidsDistinct ==
    call.fn = "fetch_pubmed_articles" =>
        \A i, j \in 1..Len(call.out.ret) :
            i # j => call.out.ret[i].pmid # call.out.ret[j].pmid

----------------------------------------------------------------------------
(* C9: each of the five chat functions issues exactly one chat-completion  *)
(* request per call and never raises; when the request raises (or the      *)
(* reply holds no text) it returns its fixed failure string, and otherwise *)
(* the reply text with the surrounding whitespace removed.                 *)

C9_Functions ==
    {"summarize_abstract", "answer_question", "extract_key_findings",
     "generate_research_gaps", "generate_clinical_recommendations"}

C9_Failure(fn) ==
    CASE fn = "summarize_abstract" ->
           <<"S","u","m","m","a","r","y"," ","g","e","n","e","r","a","t","i","o","n"," ",
             "f","a","i","l","e","d","."," ","P","l","e","a","s","e"," ","t","r","y"," ",
             "a","g","a","i","n"," ","l","a","t","e","r",".">>
      [] fn = "answer_question" ->
           <<"Q","u","e","s","t","i","o","n"," ","a","n","s","w","e","r","i","n","g"," ",
             "f","a","i","l","e","d","."," ","P","l","e","a","s","e"," ","t","r","y"," ",
             "a","g","a","i","n"," ","l","a","t","e","r",".">>
      [] OTHER ->
           <<"A","n","a","l","y","s","i","s"," ","f","a","i","l","e","d","."," ","P","l",
             "e","a","s","e"," ","t","r","y"," ","a","g","a","i","n"," ","l","a","t","e",
             "r",".">>

\* t is s less its leading and trailing whitespace
C9_IsTrimOf(t, s) ==
    \E i \in 0..Len(s) : \E j \in i..Len(s) :
        /\ \A k \in 1..i : IsSpace(s[k])
        /\ \A k \in (j + 1)..Len(s) : IsSpace(s[k])
        /\ t = SubSeq(s, i + 1, j)
        /\ (t = <<>> \/ (~IsSpace(t[1]) /\ ~IsSpace(t[Len(t)])))

C9_OneRequestTrimmedOrFailure ==
    call.fn \in C9_Functions =>
        /\ ~call.out.raised
        /\ Len(call.out.requests) = 1
        /\ IF call.completion.kind = "ok" /\ call.completion.content # None
           THEN C9_IsTrimOf(call.out.ret, call.completion.content[1])
           ELSE call.out.ret = C9_Failure(call.fn)

\* a reply with whitespace on both sides came back trimmed
C9_Witness ==
    /\ call.fn = "generate_research_gaps"
    /\ call.completion = [kind |-> "ok", content |-> Some(<<" ", "x", " ">>)]
    /\ call.out.ret = <<"x">>

----------------------------------------------------------------------------
(* C3: a search form submitted with keywords, disease, author and journal  *)
(* all blank is caught before any network call: a warning is shown, no     *)
(* PubMed request is issued and no session-state variable changes.         *)

C3_BlankFormIsRejected ==
    [][(RunOver /\ run'.handler = "form" /\ run'.blank) =>
          /\ run'.warnings = 1
          /\ run'.requests = <<>>
          /\ UNCHANGED <<last_query, search_history, result_count, articles,
                         article_summaries, key_findings, research_gaps,
                         clinical_recommendations>>]_vars

----------------------------------------------------------------------------
(* C8: when the handler of a search finishes, on each of the three paths   *)
(* (form submit, sample search, recent-search button), the session article *)
(* list is that search's fetch result and the summary cache and the three  *)
(* analysis outputs are empty.                                             *)

C8_SearchReplacesAndClears ==
    (run.searched /\ pc \in {"render", "crashed"}
     /\ run.handler \in {"form", "sample", "history"}) =>
        /\ run.fetched # None
        /\ articles = run.fetched[1]
        /\ DOMAIN article_summaries = {}
        /\ key_findings = <<>>
        /\ research_gaps = <<>>
        /\ clinical_recommendations = <<>>

----------------------------------------------------------------------------
(* C10: between two consecutive searches summarize_abstract is requested   *)
(* at most once per pmid, however often the page is rendered; once a run   *)
(* over a non-empty article list is over every listed article has a        *)
(* summary entry; and an entry changes only when a search clears the cache.*)

C10_AtMostOnce ==
    \A p \in DOMAIN summary_requests : summary_requests[p] <= 1

C10_AllSummarized ==
    (RunOver /\ articles # <<>>) =>
        \A k \in 1..Len(articles) : articles[k].pmid \in DOMAIN article_summaries

C10_EntriesKept ==
    \/ (RunOver /\ run'.searched /\ run'.handler \in {"form", "sample"})
    \/ \A p \in DOMAIN article_summaries :
          /\ p \in DOMAIN article_summaries'
          /\ article_summaries'[p] = article_summaries[p]

C10_SummariesMemoized ==
    /\ [](C10_AtMostOnce /\ C10_AllSummarized)
    /\ [][C10_EntriesKept]_vars

\* a later run has gone through the Articles tab again with every summary cached,
\* one of them the failure string
C10_Witness ==
    /\ pc = "analysis"
    /\ run.handler = "rerun"
    /\ Len(articles) = 2
    /\ articles[1].pmid # articles[2].pmid
    /\ \A k \in 1..2 : /\ articles[k].pmid \in DOMAIN article_summaries
                       /\ summary_requests[articles[k].pmid] = 1
    /\ article_summaries[articles[1].pmid] = SummaryFailed
    /\ article_summaries[articles[2].pmid] = <<"x">>

----------------------------------------------------------------------------
(* C11: no user action (form search, sample search, recent-search re-run,  *)
(* rendering, analysis, Q&A, export) ends in an uncaught exception.        *)

C11_NoUncaughtException == pc # "crashed"

----------------------------------------------------------------------------
(* C12: generate_citation returns "<attribution>. (<year>). <title>.       *)
(* <journal>. Retrieved from <url>", the attribution being the one author, *)
(* "A & B" for two, "A et al." for three or more and "Unknown" for none,   *)
(* and the year the first 19xx/20xx four-digit number standing on its own  *)
(* in publication_date, or "n.d." when there is none.                      *)

C12_Attribution(authors) ==
    CASE Len(authors) = 0 -> <<"U","n","k","n","o","w","n">>
      [] Len(authors) = 1 -> authors[1]
      [] Len(authors) = 2 -> JoinStr(<<" ", "&", " ">>, authors)
      [] OTHER -> authors[1] \o <<" ","e","t"," ","a","l",".">>

\* four digits at i..i+3, the first two 19 or 20, with no letter, digit or
\* underscore next to them
C12_YearStarts(d) ==
    {i \in 1..(Len(d) - 3) :
        /\ \A k \in i..(i + 3) : IsDigit(d[k])
        /\ DigitsVal(SubSeq(d, i, i + 1)) \in {19, 20}
        /\ i > 1 => ~IsWordChar(d[i - 1])
        /\ i + 4 <= Len(d) => ~IsWordChar(d[i + 4])}

C12_Year(d) ==
    IF C12_YearStarts(d) = {} THEN <<"n", ".", "d", ".">>
    ELSE LET first == CHOOSE i \in C12_YearStarts(d) :
                          \A j \in C12_YearStarts(d) : i <= j
         IN  SubSeq(d, first, first + 3)

C12_CitationFormat ==
    call.fn = "generate_citation" =>
        call.out = JoinStr(<<".", " ">>,
                     <<C12_Attribution(call.article.authors),
                       <<"(">> \o C12_Year(call.article.publication_date) \o <<")">>,
                       call.article.title,
                       call.article.journal,
                       <<"R","e","t","r","i","e","v","e","d"," ","f","r","o","m"," ">> \o call.article.article_url>>)

\* three authors and a date with a day, a month and a year
C12_Witness ==
    /\ call.fn = "generate_citation"
    /\ Len(call.article.authors) = 3
    /\ call.article.publication_date = <<"J","a","n"," ","5",","," ","2","0","2","0">>
    /\ call.out = <<"A","b"," ","e","t"," ","a","l",".","."," ","(","2","0","2","0",")","."," ","T","1","."," ","J","1","."," ","R","e","t","r","i","e","v","e","d"," ","f","r","o","m"," ","h","t","t","p","s",":","/","/","p","u","b","m","e","d",".","n","c","b","i",".","n","l","m",".","n","i","h",".","g","o","v","/","1","/">>

----------------------------------------------------------------------------
(* C13: the authors of every normalized record are, in source order, one   *)
(* name per resolvable <Author>: "Forename Lastname", or "Initials         *)
(* Lastname" if the forename is absent, or the last name alone, or the     *)
(* collective name; the list is ["No authors listed"] only when no author  *)
(* is resolvable.                                                          *)

C13_Name(a) ==
    IF a.lastname # None
    THEN IF a.forename # None THEN Some(a.forename[1] \o <<" ">> \o a.lastname[1])
         ELSE IF a.initials # None THEN Some(a.initials[1] \o <<" ">> \o a.lastname[1])
         ELSE Some(a.lastname[1])
    ELSE a.collectivename

C13_Authors(author_tags) ==
    LET resolvable == SelectSeq(author_tags, LAMBDA a : C13_Name(a) # None)
    IN  IF resolvable = <<>> THEN <<<<"N","o"," ","a","u","t","h","o","r","s"," ","l","i","s","t","e","d">>>>
        ELSE [i \in 1..Len(resolvable) |-> C13_Name(resolvable[i])[1]]

C13_EveryAuthorResolved ==
    C6_Successful(call) =>
        \A k \in 1..Len(call.out.ret) :
            call.out.ret[k].authors = C13_Authors(call.fetch_resp.articles[k].authors)

----------------------------------------------------------------------------
(* C14: the abstract of a normalized record is its sections in order, each *)
(* labelled section rendered "<Label>: <text> " (so Background/A and       *)
(* Methods/B give "Background: A Methods: B "); a record with no abstract  *)
(* element gets "No abstract available".                                   *)

RECURSIVE C14_Sections(_)
C14_Sections(sections) ==
    IF sections = <<>> THEN <<>>
    ELSE LET sec == Head(sections)
         IN  (IF sec.label # None THEN sec.label[1] \o <<":", " ">> ELSE <<>>)
             \o Strip(sec.text) \o <<" ">> \o C14_Sections(Tail(sections))

C14_Abstract(abstract_tag) ==
    IF abstract_tag = None THEN <<"N","o"," ","a","b","s","t","r","a","c","t"," ","a","v","a","i","l","a","b","l","e">>
    ELSE C14_Sections(abstract_tag[1])

C14_LabelledSections ==
    C6_Successful(call) =>
        \A k \in 1..Len(call.out.ret) :
            call.out.ret[k].abstract = C14_Abstract(call.fetch_resp.articles[k].abstract)

----------------------------------------------------------------------------
(* C15: the keywords of a normalized record are its explicit keyword tags  *)
(* in order; when it has none, they are its first up to 5 MeSH descriptor  *)
(* names (and empty only if it has none of those either).                  *)

C15_Keywords(article) ==
    IF article.keywords # <<>>
    THEN [i \in 1..Len(article.keywords) |-> Strip(article.keywords[i])]
    ELSE SubSeq(article.mesh, 1, Min(5, Len(article.mesh)))

C15_MeshFallback ==
    C6_Successful(call) =>
        \A k \in 1..Len(call.out.ret) :
            call.out.ret[k].keywords = C15_Keywords(call.fetch_resp.articles[k])

----------------------------------------------------------------------------
(* C16: one fetch_pubmed_articles call issues at most one search request   *)
(* and at most one fetch request, the search request first; the fetch      *)
(* request is issued only after a search response with a non-empty         *)
(* identifier list, never after a failed search or an empty list; nothing  *)
(* is retried.                                                             *)

C16_Sent(c, endpoint) ==
    {i \in 1..Len(c.out.requests) : c.out.requests[i].endpoint = endpoint}

C16_SearchThenAtMostOneFetch ==
    call.fn = "fetch_pubmed_articles" =>
        /\ Cardinality(C16_Sent(call, "esearch")) <= 1
        /\ Cardinality(C16_Sent(call, "efetch")) <= 1
        /\ \A i \in C16_Sent(call, "efetch") : \E j \in C16_Sent(call, "esearch") : j < i
        /\ C16_Sent(call, "efetch") # {} =>
              (~C5_SearchFailed(call) /\ C5_Ids(call) # <<>>)
        /\ (C5_SearchFailed(call) \/ C5_Ids(call) = <<>>) =>
              C16_Sent(call, "esearch") = {1} /\ Len(call.out.requests) = 1

\* the fetch request failed after a search that found two identifiers, and
\* neither request was sent again
C16_Witness ==
    /\ call.fn = "fetch_pubmed_articles"
    /\ ~C5_SearchFailed(call)
    /\ Len(C5_Ids(call)) = 2
    /\ call.fetch_resp.kind = "network_error"
    /\ Len(call.out.requests) = 2
    /\ call.out.requests[1].endpoint = "esearch"
    /\ call.out.requests[2].endpoint = "efetch"
    /\ call.out.requests[2].id = Some(JoinStr(<<",">>, C5_Ids(call)))

----------------------------------------------------------------------------
(* C17: after any sequence of user actions search_history holds no         *)
(* duplicate and no empty query, it only grows by appending at the end     *)
(* (entries are never removed or reordered), and last_query is the initial *)
(* empty string or an element of search_history.                           *)

C17_HistoryWellFormed ==
    /\ \A i, j \in 1..Len(search_history) :
          search_history[i] = search_history[j] => i = j
    /\ \A i \in 1..Len(search_history) : search_history[i] # <<>>
    /\ \/ last_query = <<>>
       \/ \E i \in 1..Len(search_history) : search_history[i] = last_query

C17_AppendOnly ==
    /\ Len(search_history') >= Len(search_history)
    /\ SubSeq(search_history', 1, Len(search_history)) = search_history

C17_HistoryInvariant ==
    /\ []C17_HistoryWellFormed
    /\ [][C17_AppendOnly]_vars

\* the form has just searched again for the oldest of three remembered queries
C17_Witness ==
    /\ Len(search_history) = 3
    /\ run.handler = "form"
    /\ run.searched
    /\ pc = "render"
    /\ last_query = search_history[1]

----------------------------------------------------------------------------
(* C18: in every reachable session state every key of the summary cache is *)
(* the pmid of an article of the current session article list: no summary  *)
(* made for the articles of an earlier search survives into a later        *)
(* search, also when a search handler is interrupted by an error.          *)

C18_CacheKeysAreCurrent ==
    \A p \in DOMAIN article_summaries :
        \E k \in 1..Len(articles) : articles[k].pmid = p

\* a recent-search click has crashed while two summaries were cached
C18_Witness ==
    /\ pc = "crashed"
    /\ run.handler = "history"
    /\ Len(articles) = 2
    /\ DOMAIN article_summaries = {articles[1].pmid, articles[2].pmid}
    /\ articles[1].pmid # articles[2].pmid

----------------------------------------------------------------------------
(* C19: between two consecutive searches each of the three cross-article   *)
(* analyses (key findings, research gaps, clinical recommendations) is     *)
(* requested from the LLM at most once however often the page is rendered, *)
(* whatever the call returned (text, failure string or empty text).        *)

C19_EachAnalysisRequestedOnce ==
    /\ analysis_requests.key_findings <= 1
    /\ analysis_requests.research_gaps <= 1
    /\ analysis_requests.clinical_recommendations <= 1

----------------------------------------------------------------------------
(* C20: no search path enables demonstration-data substitution: after a    *)
(* form or sample search whose PubMed article request fails or returns no  *)
(* identifier the session article list is empty (the previous results are  *)
(* discarded), and in no reachable state does the list hold a              *)
(* demonstration record (pmid sample1..sample5).                           *)

C20_DemoPmids == {generate_mock_data[k].pmid : k \in 1..Len(generate_mock_data)}

\* the article request of the search this run made raised, or found no identifier
C20_FailedOrEmpty ==
    \/ run.errors > 0
    \/ \A i \in 1..Len(run.requests) : run.requests[i].endpoint # "efetch"

C20_NoDemoData ==
    /\ \A k \in 1..Len(articles) : articles[k].pmid \notin C20_DemoPmids
    /\ (pc = "render" /\ run.searched /\ run.handler \in {"form", "sample"}
        /\ C20_FailedOrEmpty) => articles = <<>>

\* a form search whose fetch request failed, in a session that had shown articles
\* before (a question was asked about them)
C20_Witness ==
    /\ pc = "render"
    /\ run.searched
    /\ run.handler = "form"
    /\ run.errors = 1
    /\ \E i \in 1..Len(run.requests) : run.requests[i].endpoint = "efetch"
    /\ user_question # <<>>
    /\ articles = <<>>

----------------------------------------------------------------------------
(* C21: no search action (form, sample or history) modifies the stored     *)
(* user question; the stored question changes only when the question box   *)
(* holds a non-empty question different from it or a sample question is    *)
(* clicked; and every Q&A request is made with the article list current at *)
(* the render, so a question stored before a new search is answered        *)
(* against the new articles.                                               *)

\* a run that began with a search leaves the stored question alone, in its
\* handler and in the render that follows
C21_SearchKeepsQuestion ==
    (run.searched \/ run'.searched) => user_question' = user_question

C21_ChangedOnlyByAsking ==
    user_question' # user_question =>
        /\ pc = "qa"
        /\ \/ /\ run.handler = "sample_question"
              /\ user_question' = sample_questions[run.index]
           \/ /\ question_input # <<>>
              /\ question_input # user_question
              /\ user_question' = question_input

C21_AskedAgainstCurrentArticles ==
    /\ qa_asked # <<>> =>
          /\ Len(qa_asked) = 1
          /\ qa_asked[1].request.user.context = QuestionContext(articles)
          /\ pc = "idle" => qa_asked[1].request.user.question = user_question
    /\ (pc = "idle" /\ articles # <<>> /\ user_question # <<>>) => qa_asked # <<>>

C21_QuestionFrame ==
    /\ []C21_AskedAgainstCurrentArticles
    /\ [][C21_SearchKeepsQuestion /\ C21_ChangedOnlyByAsking]_vars

\* the run of a search has rendered the Q&A tab: the sample question stored
\* before that search was asked again, with the two articles the search found
C21_Witness ==
    /\ pc = "idle"
    /\ qa_asked # <<>>
    /\ qa_asked[1].searched
    /\ user_question = sample_questions[1]
    /\ qa_asked[1].request.user.question = sample_questions[1]
    /\ Len(articles) = 2
    /\ articles[1].pmid = articles[2].pmid
    /\ qa_asked[1].request.user.context = QuestionContext(articles)

====
